---- MODULE Spec2Model ----
(***************************************************************************)
(* Model of the DING print pipeline: the job table (core/models.py), the   *)
(* PrinterService orchestrator and device adapter (services/printer.py),   *)
(* the text preparer (services/text.py), the job submission paths          *)
(* (ui/pages/ding.py) and the retry and delete endpoints (api/endpoints).  *)
(*                                                                         *)
(* The Streamlit UI (ui/app.py) and the FastAPI server (api/main.py) are   *)
(* two programs; each imports services.printer and so each owns one        *)
(* PrinterService instance with its own threading.Lock.                    *)
(***************************************************************************)
EXTENDS Integers, Sequences, FiniteSets, TLC

(* ------------------------------ bounds -------------------------------- *)
MaxJobs == 2
MaxWorkers == 2
MaxRetries == 2

JobIds == 1..MaxJobs
Workers == 1..MaxWorkers
Requests == 1..MaxRetries
Procs == {"ui", "api"}

(* SQL NULL / Python None for text-valued fields *)
Null == <<"NULL">>

(* Python truthiness of an optional string: None and "" are falsy *)
Truthy(s) == s # Null /\ s # <<>>

(* ------------------------- text preparer ------------------------------ *)
(* Text is a sequence of one-character strings.                           *)
Chars == {"a", "b", " ", "\n", "E_ACUTE"}

unidecode(c) == IF c = "E_ACUTE" THEN <<"e">> ELSE <<c>>

RECURSIVE encode_for_escpos(_)
encode_for_escpos(text) ==
  IF text = <<>> THEN <<>>
  ELSE unidecode(Head(text)) \o encode_for_escpos(Tail(text))

IsSpace(c) == c \in {" ", "\n"}

(* variant of the blank test that takes every text for non-blank *)
strip_empty_never(s) == FALSE

(* not s.strip(): the text is empty or all whitespace *)
strip_empty(s) == \A i \in 1..Len(s) : IsSpace(s[i])

(* A constructor {e(x) : x \in {v}} names an intermediate result v once, *)
(* as a local variable of the code does.                                 *)
RECURSIVE split_lines(_)
split_lines(s) ==
  IF s = <<>> THEN << <<>> >>
  ELSE CHOOSE ls \in
         { IF Head(s) = "\n" THEN << <<>> >> \o r
           ELSE << <<Head(s)>> \o Head(r) >> \o Tail(r)
           : r \in {split_lines(Tail(s))} } : TRUE

RECURSIVE join_lines(_)
join_lines(ls) ==
  IF Len(ls) = 0 THEN <<>>
  ELSE IF Len(ls) = 1 THEN ls[1]
  ELSE ls[1] \o <<"\n">> \o join_lines(Tail(ls))

RECURSIVE concat(_)
concat(cs) == IF cs = <<>> THEN <<>> ELSE Head(cs) \o concat(Tail(cs))

(* textwrap's chunking: maximal runs of blanks and of non-blanks *)
RECURSIVE split_chunks(_)
split_chunks(p) ==
  IF p = <<>> THEN <<>>
  ELSE CHOOSE cs \in
         { IF r # <<>> /\ IsSpace(Head(r)[1]) = IsSpace(Head(p))
           THEN << <<Head(p)>> \o Head(r) >> \o Tail(r)
           ELSE << <<Head(p)>> >> \o r
           : r \in {split_chunks(Tail(p))} } : TRUE

RECURSIVE chunks_len(_)
chunks_len(cs) == IF cs = <<>> THEN 0 ELSE Len(Head(cs)) + chunks_len(Tail(cs))

RECURSIVE fit_count(_, _)
fit_count(cs, room) ==
  IF cs = <<>> \/ Len(Head(cs)) > room THEN 0
  ELSE 1 + fit_count(Tail(cs), room - Len(Head(cs)))

RECURSIVE wrap_chunks(_, _, _)
wrap_chunks(chunks, width, lines) ==
  IF chunks = <<>> THEN lines
  ELSE
    LET c1 == IF strip_empty(Head(chunks)) /\ lines # <<>>
              THEN Tail(chunks) ELSE chunks
        n == fit_count(c1, width)
        cur == SubSeq(c1, 1, n)
        rest == SubSeq(c1, n + 1, Len(c1))
        long == rest # <<>> /\ Len(Head(rest)) > width
        space_left == IF width < 1 THEN 1 ELSE width - chunks_len(cur)
        cur2 == IF long THEN Append(cur, SubSeq(Head(rest), 1, space_left))
                ELSE cur
        rest2 == IF long
                 THEN <<SubSeq(Head(rest), space_left + 1, Len(Head(rest)))>>
                      \o Tail(rest)
                 ELSE rest
        cur3 == IF cur2 # <<>> /\ strip_empty(cur2[Len(cur2)])
                THEN SubSeq(cur2, 1, Len(cur2) - 1) ELSE cur2
        lines2 == IF cur3 # <<>> THEN Append(lines, concat(cur3)) ELSE lines
    IN CHOOSE ls \in { wrap_chunks(x[1], width, x[2])
                        : x \in {<<rest2, lines2>>} } : TRUE

(* variant of textwrap.fill that returns the paragraph on one line *)
textwrap_fill_unwrapped(p, width) == p

textwrap_fill(p, width) ==
  CHOOSE out \in { join_lines(ls)
                   : ls \in {wrap_chunks(split_chunks(p), width, <<>>)} } : TRUE

RECURSIVE wrap_paragraphs(_, _)
wrap_paragraphs(paragraphs, max_width) ==
  IF paragraphs = <<>> THEN <<>>
  ELSE << IF ~strip_empty(Head(paragraphs))
          THEN textwrap_fill(Head(paragraphs), max_width)
          ELSE <<>> >>
       \o wrap_paragraphs(Tail(paragraphs), max_width)

wrap_text_for_printer(text, max_width) ==
  CHOOSE out \in { join_lines(wrapped)
                   : wrapped \in { wrap_paragraphs(paragraphs, max_width)
                                   : paragraphs \in {split_lines(text)} } }
         : TRUE

(* Outcomes of running the external cowsay program *)
CowsayOutcomes == {"ok", "notfound", "timeout", "nonzero"}

generate_cowsay(text, max_width, outcome) ==
  IF outcome = "ok"
  THEN <<"<cow>">> \o encode_for_escpos(text) \o <<"</cow>">>
  ELSE Null

(* variant of prepare_text_for_print that returns whatever generate_cowsay *)
(* returned, without the fallback                                         *)
prepare_text_for_print_no_fallback(text, max_width, use_cowsay, outcome) ==
  IF use_cowsay THEN generate_cowsay(text, max_width, outcome)
  ELSE wrap_text_for_printer(encode_for_escpos(text), max_width)

prepare_text_for_print(text, max_width, use_cowsay, outcome) ==
  CHOOSE out \in
    { IF use_cowsay /\ Truthy(generate_cowsay(text, max_width, outcome))
      THEN generate_cowsay(text, max_width, outcome)
      ELSE wrap_text_for_printer(encoded, max_width)
      : encoded \in {encode_for_escpos(text)} } : TRUE

(* ------------------------- text renderer ------------------------------ *)
(* draw.textbbox: the height in pixels of a text drawn at a font size.    *)
(* A text is measured by its number of lines; a TrueType font draws each  *)
(* line `size` pixels high, and ImageFont.load_default(), the fallback of *)
(* find_monospace_font, ignores the size.                                 *)
DefaultLineHeight == 11

text_height(text, size) ==
  IF text.truetype THEN text.lines * size
  ELSE text.lines * DefaultLineHeight

max_iterations == 20

(* the loop of calculate_font_size; measured is the list of sizes tried *)
RECURSIVE font_size_search(_, _, _, _, _, _)
font_size_search(text, target_height, min_size, max_size, best_size, measured) ==
  IF Len(measured) = max_iterations
  THEN [size |-> best_size, measured |-> measured]
  ELSE
    LET mid_size == (min_size + max_size) \div 2
        h == text_height(text, mid_size)
    IN IF h < target_height
       THEN font_size_search(text, target_height, mid_size + 1, max_size,
                             mid_size, Append(measured, mid_size))
       ELSE IF h > target_height
       THEN font_size_search(text, target_height, min_size, mid_size - 1,
                             best_size, Append(measured, mid_size))
       ELSE [size |-> mid_size, measured |-> Append(measured, mid_size)]

calculate_font_size(text, target_height) ==
  font_size_search(text, target_height, 10, 500, 50, <<>>)

(* int(dots_per_line * 0.7) *)
banner_target_height(dots_per_line) == (dots_per_line * 7) \div 10

(* ------------------------- configuration ------------------------------ *)
(* The dictionary held by the module-level yaml_config object.            *)
FontSizes == {"small", "medium", "large"}

FontsA == [small  |-> [width |-> 1, height |-> 1, text_cpl |-> 6, cowsay_cpl |-> 5],
           medium |-> [width |-> 1, height |-> 2, text_cpl |-> 4, cowsay_cpl |-> 3],
           large  |-> [width |-> 2, height |-> 2, text_cpl |-> 3, cowsay_cpl |-> 2]]

FontsB == [small  |-> [width |-> 1, height |-> 1, text_cpl |-> 4, cowsay_cpl |-> 4],
           medium |-> [width |-> 2, height |-> 1, text_cpl |-> 3, cowsay_cpl |-> 3],
           large  |-> [width |-> 8, height |-> 8, text_cpl |-> 2, cowsay_cpl |-> 2]]

ConfigA == [feed_before |-> 1, feed_after |-> 2, cut_paper |-> TRUE,
            dots_per_line |-> 384, fonts |-> FontsA]
ConfigB == [feed_before |-> 2, feed_after |-> 1, cut_paper |-> FALSE,
            dots_per_line |-> 576, fonts |-> FontsB]
ConfigSet == {ConfigA, ConfigB}

get_font_size_config(cfg, font_size, is_cowsay) ==
  IF is_cowsay THEN cfg.fonts[font_size].cowsay_cpl
  ELSE cfg.fonts[font_size].text_cpl

(* ------------------------- device operations -------------------------- *)
(* One record per call made on the printer object.                        *)
OpText(s)  == [op |-> "text",  n |-> 0, s |-> s]
OpRaw(n)   == [op |-> "raw",   n |-> n, s |-> <<>>]
OpImage(p) == [op |-> "image", n |-> 0, s |-> p]
OpCut      == [op |-> "cut",   n |-> 0, s |-> <<>>]
OpNl       == OpText(<<"\n">>)

RECURSIVE BitOr(_, _)
BitOr(a, b) ==
  IF a = 0 THEN b
  ELSE IF b = 0 THEN a
  ELSE (IF (a % 2 = 1) \/ (b % 2 = 1) THEN 1 ELSE 0)
       + 2 * BitOr(a \div 2, b \div 2)

feed_lines(n) == [i \in 1..n |-> OpNl]

(* variant of _feed_and_cut that cuts before it feeds *)
feed_and_cut_cut_first(cfg) ==
  (IF cfg.cut_paper THEN <<OpCut>> ELSE <<>>) \o feed_lines(cfg.feed_after)

feed_and_cut(cfg) ==
  feed_lines(cfg.feed_after) \o (IF cfg.cut_paper THEN <<OpCut>> ELSE <<>>)

(* variant of _set_font_size that sends nothing for the default size *)
set_font_size_skip_default(cfg, font_size) ==
  IF font_size = "medium" THEN <<>>
  ELSE <<OpRaw(0),
         OpRaw(BitOr((cfg.fonts[font_size].width - 1) * 16,
                     cfg.fonts[font_size].height - 1))>>

(* variant of _set_font_size that packs the byte as its comment says:     *)
(* width-1 in bits 0-2, height-1 in bits 4-6                              *)
set_font_size_as_commented(cfg, font_size) ==
  <<OpRaw(0),
    OpRaw(BitOr((cfg.fonts[font_size].height - 1) * 16,
                cfg.fonts[font_size].width - 1))>>

set_font_size(cfg, font_size) ==
  LET width == cfg.fonts[font_size].width
      height == cfg.fonts[font_size].height
      size_byte == BitOr((width - 1) * 16, height - 1)
  IN <<OpRaw(0), OpRaw(size_byte)>>

reset_font_size == <<OpRaw(0)>>

(* print_text, regular branch: the calls made on the connection, in order *)
print_text(cfg, text, font_size, use_cowsay, cow) ==
  LET max_width == get_font_size_config(cfg, font_size, use_cowsay)
      prepared_text == prepare_text_for_print(text, max_width, use_cowsay, cow)
  IN feed_lines(cfg.feed_before)
     \o set_font_size(cfg, font_size)
     \o <<OpText(prepared_text), OpNl>>
     \o reset_font_size
     \o feed_and_cut(cfg)

(* _print_text_banner: the calls made on the connection, in order *)
print_text_banner(cfg, processed_path) ==
  feed_lines(cfg.feed_before) \o <<OpImage(processed_path)>> \o feed_and_cut(cfg)

(* print_image: calls made before process_image runs, and calls after it *)
print_image_pre(cfg) == feed_lines(cfg.feed_before)

(* variant of print_image that leaves the caption's font scale set *)
print_image_post_no_reset(cfg, processed_path, caption, font_size, is_banner) ==
  <<OpImage(processed_path)>>
  \o (IF Truthy(caption) /\ ~is_banner
      THEN <<OpNl>>
           \o set_font_size(cfg, font_size)
           \o <<OpText(prepare_text_for_print(
                  caption, get_font_size_config(cfg, font_size, FALSE),
                  FALSE, "notfound")),
                OpNl>>
      ELSE <<>>)
  \o feed_and_cut(cfg)

print_image_post(cfg, processed_path, caption, font_size, is_banner) ==
  <<OpImage(processed_path)>>
  \o (IF Truthy(caption) /\ ~is_banner
      THEN <<OpNl>>
           \o set_font_size(cfg, font_size)
           \o <<OpText(prepare_text_for_print(
                  caption, get_font_size_config(cfg, font_size, FALSE),
                  FALSE, "notfound")),
                OpNl>>
           \o reset_font_size
      ELSE <<>>)
  \o feed_and_cut(cfg)

(* _connect_printer: USB first, then the file device *)
UsbOutcomes == {"ok", "no_device", "busy"}
FileOutcomes == {"ok", "enoent"}

Attempt(transport, result) == [transport |-> transport, result |-> result]

connect_printer_file_first(usb, file) ==
  IF file = "ok"
  THEN [printer |-> "file", tried |-> <<Attempt("file", file)>>, err |-> Null]
  ELSE IF usb = "ok"
  THEN [printer |-> "usb",
        tried |-> <<Attempt("file", file), Attempt("usb", usb)>>,
        err |-> Null]
  ELSE [printer |-> "none",
        tried |-> <<Attempt("file", file), Attempt("usb", usb)>>,
        err |-> <<"Failed to connect to printer",
                  "USB failed", usb, "File failed", file>>]

connect_printer(usb, file) ==
  IF usb = "ok"
  THEN [printer |-> "usb", tried |-> <<Attempt("usb", usb)>>, err |-> Null]
  ELSE IF file = "ok"
  THEN [printer |-> "file",
        tried |-> <<Attempt("usb", usb), Attempt("file", file)>>,
        err |-> Null]
  ELSE [printer |-> "none",
        tried |-> <<Attempt("usb", usb), Attempt("file", file)>>,
        err |-> <<"Failed to connect to printer",
                  "USB failed", usb, "File failed", file>>]

(* ------------------------------ state --------------------------------- *)
VARIABLES
  jobs,         \* ding_jobs table: job id -> row
  user_exists,  \* the submitting user's row in users
  yaml_config,  \* dictionary loaded by YAMLConfig at import
  config_file,  \* contents of config.yaml on disk
  device_scale, \* size byte of the last font-scale command the printer received
  files,        \* banner artifacts in settings.store_path
  lock,         \* per program: holder of PrinterService._lock (0 = free)
  pc,           \* per worker thread: position in process_job
  wjob,         \* per worker thread: job_id argument
  wproc,        \* per worker thread: program whose printer_service started it
  wrec,         \* per worker thread: the DingJob attributes process_job reads
  conn,         \* per worker thread: printer handle opened and not yet closed
  tried,        \* per worker thread: transports _connect_printer attempted, with results
  sent,         \* per worker thread: calls made on its printer handle
  werr,         \* per worker thread: str(e) of the exception being handled
  close_err,    \* per worker thread: the exception _close_printer caught
  rpc,          \* per retry request: position in retry_job
  rjob,         \* per retry request: job_id argument
  frame,        \* the library function last called on its own, with its result
  auth_pins,    \* auth_pins table: rows in order of creation
  user_sessions, \* user_sessions table: set of rows
  next_token,   \* number of session tokens generate_session_token has returned, plus 1
  session_state, \* per browser session: st.session_state
  lpc,          \* per browser session: position in the LOGIN handler of show_pin_step
  lrec          \* per browser session: the auth_pins row validate_pin found

vars == <<jobs, user_exists, yaml_config, config_file, device_scale, files,
          lock, pc, wjob, wproc, wrec, conn, tried, sent, werr, close_err,
          rpc, rjob, frame, auth_pins, user_sessions, next_token,
          session_state, lpc, lrec>>

printvars == <<jobs, user_exists, yaml_config, config_file, device_scale,
               files, lock, pc, wjob, wproc, wrec, conn, tried, sent, werr,
               close_err, rpc, rjob, frame>>

authvars == <<auth_pins, user_sessions, next_token, session_state, lpc, lrec>>

wlocal == <<wrec, conn, tried, sent, werr, close_err>>

NoJob == [exists |-> FALSE, job_type |-> "NULL", content_type |-> "NULL",
          text_content |-> Null, image_path |-> Null, font_size |-> "NULL",
          status |-> "NULL", error_message |-> Null, completed_at |-> "NULL"]

DingJob(job_type, content_type, text_content, image_path, font_size) ==
  [exists |-> TRUE, job_type |-> job_type, content_type |-> content_type,
   text_content |-> text_content, image_path |-> image_path,
   font_size |-> font_size, status |-> "pending",
   error_message |-> Null, completed_at |-> "NULL"]

(* inputs typed or uploaded in the UI *)
Texts == {<<"a", " ", "b", "b">>, <<" ">>}
Captions == {<<>>, <<"a", "b", "a">>}
UploadPath == <<"upload.png">>

PathOf(prefix, job_id) == <<prefix, ToString(job_id)>>

(* no library function has been called on its own *)
NoFrame == [fn |-> "NULL", args |-> <<>>, ret |-> <<>>]

(* users, browser sessions, PIN values and row counts of the login model *)
MaxUsers == 2
MaxClients == 2
MaxPins == 3
MaxTokens == 3

UserIds == 1..MaxUsers
Clients == 1..MaxClients
Pins == {"0000", "1111"}
NoUser == 0
NoToken == 0

(* AuthPin(user_id=..., pin=..., expires_at=..., used=False); expired is  *)
(* expires_at <= utcnow()                                                 *)
AuthPin(user_id, pin) ==
  [user_id |-> user_id, pin |-> pin, used |-> FALSE, expired |-> FALSE]

(* UserSession(user_id=..., session_token=..., expires_at=...) *)
UserSession(user_id, session_token) ==
  [user_id |-> user_id, session_token |-> session_token, expired |-> FALSE]

(* st.session_state of a browser session that has not logged in *)
NoSessionState ==
  [login_step |-> "username", login_username |-> NoUser,
   session_token |-> NoToken]

InitAuth ==
  /\ auth_pins = <<>>
  /\ user_sessions = {}
  /\ next_token = 1
  /\ session_state = [c \in Clients |-> NoSessionState]
  /\ lpc = [c \in Clients |-> "idle"]
  /\ lrec = [c \in Clients |-> 0]

Init ==
  /\ jobs = [j \in JobIds |-> NoJob]
  /\ user_exists = TRUE
  /\ yaml_config = ConfigA
  /\ config_file = yaml_config
  /\ device_scale = 0
  /\ files = {}
  /\ lock = [p \in Procs |-> 0]
  /\ pc = [w \in Workers |-> "idle"]
  /\ wjob = [w \in Workers |-> 0]
  /\ wproc = [w \in Workers |-> "ui"]
  /\ wrec = [w \in Workers |-> [job_type |-> "NULL", content_type |-> "NULL",
         text_content |-> Null, image_path |-> Null, font_size |-> "NULL"]]
  /\ conn = [w \in Workers |-> "none"]
  /\ tried = [w \in Workers |-> <<>>]
  /\ sent = [w \in Workers |-> <<>>]
  /\ werr = [w \in Workers |-> Null]
  /\ close_err = [w \in Workers |-> Null]
  /\ rpc = [r \in Requests |-> "idle"]
  /\ rjob = [r \in Requests |-> 0]
  /\ frame = NoFrame
  /\ InitAuth

(* ------------------------- dispatch ----------------------------------- *)
IdleWorkers == {w \in Workers : pc[w] = "idle"}
NextWorker == CHOOSE w \in IdleWorkers : \A v \in IdleWorkers : w <= v
FreeIds == {j \in JobIds : ~jobs[j].exists /\ \A i \in JobIds : i >= j => ~jobs[i].exists}
NextId == CHOOSE j \in FreeIds : \A i \in FreeIds : j <= i

(* process_job_async: start a thread running process_job(job_id) *)
process_job_async(proc, job_id) ==
  /\ IdleWorkers # {}
  /\ pc' = [pc EXCEPT ![NextWorker] = "start"]
  /\ wjob' = [wjob EXCEPT ![NextWorker] = job_id]
  /\ wproc' = [wproc EXCEPT ![NextWorker] = proc]

(* show_text_tab, SEND button *)
show_text_tab(text_content, font_choice, cowsay_choice) ==
  LET use_cowsay == font_choice # "banner" /\ cowsay_choice
      font_size == IF use_cowsay THEN "small" ELSE font_choice
  IN /\ user_exists
     /\ FreeIds # {}
     /\ ~strip_empty(text_content)
     /\ jobs' = [jobs EXCEPT ![NextId] =
                   DingJob("text", IF use_cowsay THEN "cowsay" ELSE "plain",
                           text_content, Null, font_size)]
     /\ process_job_async("ui", NextId)
     /\ UNCHANGED <<user_exists, yaml_config, authvars, frame, config_file, device_scale, files, lock, wlocal, rpc, rjob>>

(* show_image_tab, SEND button, for an upload that validate_image accepts *)
show_image_tab(is_banner, caption_input, font_choice) ==
  LET caption == IF is_banner THEN Null ELSE caption_input
      font_size == IF Truthy(caption) THEN font_choice ELSE "medium"
  IN /\ user_exists
     /\ FreeIds # {}
     /\ jobs' = [jobs EXCEPT ![NextId] =
                   DingJob(IF Truthy(caption) THEN "text_with_image" ELSE "image",
                           IF is_banner THEN "banner" ELSE "plain",
                           caption, UploadPath,
                           IF Truthy(caption) THEN font_size ELSE "NULL")]
     /\ process_job_async("ui", NextId)
     /\ UNCHANGED <<user_exists, yaml_config, authvars, frame, config_file, device_scale, files, lock, wlocal, rpc, rjob>>

(* delete_user: the cascade on User.jobs deletes every job of the user *)
delete_user ==
  /\ user_exists
  /\ user_exists' = FALSE
  /\ jobs' = [j \in JobIds |-> NoJob]
  /\ UNCHANGED <<yaml_config, authvars, frame, config_file, device_scale, files, lock, pc, wjob, wproc, wlocal, rpc, rjob>>

(* an operator edits config.yaml while the programs are running; the      *)
(* YAMLConfig object is not told (reload() has no caller)                 *)
edit_config(new_config) ==
  /\ new_config # config_file
  /\ config_file' = new_config
  /\ UNCHANGED <<jobs, user_exists, yaml_config, authvars, frame, device_scale, files, lock,
                 pc, wjob, wproc, wlocal, rpc, rjob>>

(* ------------------------- PrinterService ----------------------------- *)
(* threading.Lock of one PrinterService: "with self._lock" entry and exit *)
lock_free_unguarded(l, proc) == TRUE

lock_free(l, proc) == l[proc] = 0
lock_enter(l, proc, w) == [l EXCEPT ![proc] = w]
lock_exit_kept(l, proc, w) == l

lock_exit(l, proc, w) == [l EXCEPT ![proc] = 0]

(* job.font_size or "medium" *)
font_size_of(rec) == IF rec.font_size = "NULL" THEN "medium" ELSE rec.font_size

(* variant of the routing that renders large text as a banner too *)
print_path_large_as_banner(rec) ==
  IF rec.job_type = "text"
  THEN (IF font_size_of(rec) \in {"banner", "large"} THEN "banner" ELSE "text")
  ELSE IF rec.job_type \in {"image", "text_with_image"} THEN "image"
  ELSE "none"

(* process_job's branch on job_type, and print_text's branch on font_size *)
print_path(rec) ==
  IF rec.job_type = "text"
  THEN (IF font_size_of(rec) = "banner" THEN "banner" ELSE "text")
  ELSE IF rec.job_type \in {"image", "text_with_image"} THEN "image"
  ELSE "none"

(* arguments process_job passes to print_image *)
image_is_banner(rec) == rec.job_type = "image" /\ rec.content_type = "banner"
image_caption(rec) == IF rec.job_type = "image" THEN Null ELSE rec.text_content

(* variant of process_image that never rotates *)
process_image_upright(image_path, max_width, rotate) ==
  <<"processed_upload.png", "upright", ToString(max_width)>>

(* process_image: the processed file, rotated 90 degrees when rotate is   *)
(* set and fitted to max_width dots                                       *)
process_image(image_path, max_width, rotate) ==
  <<"processed_upload.png", IF rotate THEN "rotated" ELSE "upright",
    ToString(max_width)>>

(* process_image, lines 63-77: the size of the image it saves.  size is    *)
(* <<width, height>> of the opened image.  float_product is how the       *)
(* floating-point product float(h) * (max_width / float(w)) comes out     *)
(* when its true value is a whole number: "exact", or "short" of it, and  *)
(* int() then truncates to one less.  Image.resize raises ValueError for  *)
(* a height below 1, which line 91 wraps.                                 *)
FloatProducts == {"exact", "short"}

process_image_size(size, max_width, rotate, float_product) ==
  LET img == IF rotate THEN <<size[2], size[1]>> ELSE size
      original_width == img[1]
      original_height == img[2]
      whole == (original_height * max_width) % original_width = 0
      hsize == (original_height * max_width) \div original_width
                 - (IF whole /\ float_product = "short" THEN 1 ELSE 0)
  IN IF original_width > max_width
     THEN IF hsize < 1
          THEN [ok |-> FALSE, size |-> <<>>,
                error |-> <<"Error processing image",
                            "height and width must be > 0">>]
          ELSE [ok |-> TRUE, size |-> <<max_width, hsize>>, error |-> Null]
     ELSE [ok |-> TRUE, size |-> img, error |-> Null]

(* the "except Exception as e: raise Exception(...)" wrappers *)
wrap_error(path, msg) ==
  IF path = "text" THEN <<"Error printing text">> \o msg
  ELSE IF path = "banner"
  THEN <<"Error printing text", "Error printing banner">> \o msg
  ELSE <<"Error printing image">> \o msg

(* calls made on the connection before any in-connection rendering *)
emit_pre(cfg, rec, job_id, cow) ==
  IF print_path(rec) = "image" THEN print_image_pre(cfg) ELSE <<>>

emit_post(cfg, rec, job_id, cow) ==
  IF print_path(rec) = "text"
  THEN print_text(cfg, rec.text_content, font_size_of(rec),
                  rec.content_type = "cowsay", cow)
  ELSE IF print_path(rec) = "banner"
  THEN print_text_banner(cfg, PathOf("banner", job_id))
  ELSE print_image_post(cfg,
                        process_image(rec.image_path, cfg.dots_per_line,
                                      image_is_banner(rec)),
                        image_caption(rec),
                        font_size_of(rec), image_is_banner(rec))

emit_all(cfg, rec, job_id, cow) ==
  emit_pre(cfg, rec, job_id, cow) \o emit_post(cfg, rec, job_id, cow)

(* the attributes of the loaded DingJob that process_job goes on to read *)
NoRec == [job_type |-> "NULL", content_type |-> "NULL", text_content |-> Null,
          image_path |-> Null, font_size |-> "NULL"]

loaded(row) ==
  [job_type |-> row.job_type, content_type |-> row.content_type,
   text_content |-> row.text_content, image_path |-> row.image_path,
   font_size |-> row.font_size]

(* process_job, lines 316-328: take the lock, load the job, mark it *)
Acquire(w) ==
  LET j == wjob[w] IN
  /\ pc[w] = "start"
  /\ lock_free(lock, wproc[w])
  /\ IF jobs[j].exists
     THEN /\ jobs' = [jobs EXCEPT ![j].status = "processing"]
          /\ wrec' = [wrec EXCEPT ![w] = loaded(jobs[j])]
          /\ lock' = lock_enter(lock, wproc[w], w)
          /\ pc' = [pc EXCEPT ![w] =
                      IF print_path(loaded(jobs[j])) = "none" THEN "printed"
                      ELSE "printing"]
          /\ UNCHANGED werr
     ELSE /\ werr' = [werr EXCEPT ![w] = <<"Job not found">>]
          /\ pc' = [pc EXCEPT ![w] = "handler"]
          /\ UNCHANGED <<jobs, wrec, lock>>
  /\ UNCHANGED <<user_exists, yaml_config, authvars, frame, close_err, config_file, device_scale, files, wjob, wproc, conn, tried,
                 sent, rpc, rjob>>

(* _print_text_banner, lines 199-213: render the banner and rotate it *)
RenderOutcomes == {"ok", "render_failed", "rotate_failed"}

Render(w, outcome) ==
  LET j == wjob[w]
      temp == <<"banner_temp", j>>
      rotated == <<"banner", j>>
      bad == strip_empty(wrec[w].text_content)
  IN
  /\ pc[w] = "printing"
  /\ print_path(wrec[w]) = "banner"
  /\ bad => outcome = "render_failed"
  /\ IF outcome = "ok"
     THEN /\ files' = files \cup {temp, rotated}
          /\ pc' = [pc EXCEPT ![w] = "rendered"]
          /\ UNCHANGED <<werr, lock>>
     ELSE /\ files' = IF outcome = "rotate_failed" THEN files \cup {temp}
                      ELSE files
          /\ werr' = [werr EXCEPT ![w] =
                        wrap_error("banner",
                          IF bad THEN <<"Text cannot be empty">>
                          ELSE <<outcome>>)]
          /\ lock' = lock_exit(lock, wproc[w], w)
          /\ pc' = [pc EXCEPT ![w] = "handler"]
  /\ UNCHANGED <<jobs, user_exists, yaml_config, authvars, frame, close_err, config_file, device_scale, wjob, wproc, wrec, conn,
                 tried, sent, rpc, rjob>>

(* print_text 154 / _print_text_banner 216 / print_image 264 *)
Connect(w, usb, file) ==
  LET r == connect_printer(usb, file) IN
  /\ \/ pc[w] = "printing" /\ print_path(wrec[w]) \in {"text", "image"}
     \/ pc[w] = "rendered"
  /\ tried' = [tried EXCEPT ![w] = r.tried]
  /\ IF r.printer # "none"
     THEN /\ conn' = [conn EXCEPT ![w] = r.printer]
          /\ pc' = [pc EXCEPT ![w] = "connected"]
          /\ UNCHANGED <<werr, lock>>
     ELSE /\ werr' = [werr EXCEPT ![w] = wrap_error(print_path(wrec[w]), r.err)]
          /\ lock' = lock_exit(lock, wproc[w], w)
          /\ pc' = [pc EXCEPT ![w] = "handler"]
          /\ UNCHANGED conn
  /\ UNCHANGED <<jobs, user_exists, yaml_config, authvars, frame, close_err, config_file, device_scale, files, wjob, wproc, wrec,
                 sent, rpc, rjob>>

(* the printer keeps the size of the last GS ! command it received *)
last_scale(scale, ops) ==
  LET raws == {i \in 1..Len(ops) : ops[i].op = "raw"}
  IN IF raws = {} THEN scale
     ELSE ops[CHOOSE i \in raws : \A r \in raws : r <= i].n

(* the body of the try block after the connection is open.                *)
(* outcome "ok": every call returns; "device": the call after the first   *)
(* k raises; "image": process_image raises.                               *)
EmitOutcomes == {"ok", "device", "image"}

Emit(w, outcome, k, cow) ==
  LET j == wjob[w]
      rec == wrec[w]
      path == print_path(rec)
      pre == emit_pre(yaml_config, rec, j, cow)
      all == emit_all(yaml_config, rec, j, cow)
  IN
  /\ pc[w] = "connected"
  /\ (path # "text" \/ rec.content_type # "cowsay") => cow = "notfound"
  /\ outcome = "image" => path = "image"
  /\ outcome = "device" => k < Len(all)
  /\ sent' = [sent EXCEPT ![w] =
                IF outcome = "ok" THEN all
                ELSE IF outcome = "device" THEN SubSeq(all, 1, k)
                ELSE pre]
  /\ werr' = [werr EXCEPT ![w] =
                IF outcome = "ok" THEN Null
                ELSE IF outcome = "device"
                THEN wrap_error(path, <<"device write failed">>)
                ELSE wrap_error(path, <<"Error processing image">>)]
  /\ files' = IF outcome = "ok" /\ path = "banner"
              THEN files \ {<<"banner_temp", j>>} ELSE files
  /\ device_scale' = last_scale(device_scale, sent'[w])
  /\ pc' = [pc EXCEPT ![w] = "closing"]
  /\ UNCHANGED <<jobs, user_exists, yaml_config, authvars, frame, close_err, config_file, lock, wjob, wproc, wrec,
                 conn, tried, rpc, rjob>>

(* outcomes of printer.close() inside _close_printer *)
CloseOutcomes == {"ok", "raises"}

close_error(outcome) == IF outcome = "raises" THEN <<"close failed">> ELSE Null

CloseOnSuccessOnly(w, outcome) ==
  /\ pc[w] = "closing"
  /\ conn' = [conn EXCEPT ![w] = IF werr[w] = Null THEN "none" ELSE @]
  /\ close_err' = [close_err EXCEPT ![w] = close_error(outcome)]
  /\ IF werr[w] = Null
     THEN /\ pc' = [pc EXCEPT ![w] = "printed"]
          /\ UNCHANGED lock
     ELSE /\ lock' = lock_exit(lock, wproc[w], w)
          /\ pc' = [pc EXCEPT ![w] = "handler"]
  /\ UNCHANGED <<jobs, user_exists, yaml_config, authvars, frame, config_file,
                 device_scale, files, wjob, wproc, wrec, tried, sent, werr,
                 rpc, rjob>>

(* variant of the finally block in which an exception of close() leaves   *)
(* _close_printer and replaces the one in flight                          *)
CloseRaising(w, outcome) ==
  LET raised == outcome = "raises" IN
  /\ pc[w] = "closing"
  /\ conn' = [conn EXCEPT ![w] = "none"]
  /\ close_err' = [close_err EXCEPT ![w] = close_error(outcome)]
  /\ werr' = [werr EXCEPT ![w] = IF raised THEN close_error(outcome) ELSE @]
  /\ IF werr[w] = Null /\ ~raised
     THEN /\ pc' = [pc EXCEPT ![w] = "printed"]
          /\ UNCHANGED lock
     ELSE /\ lock' = lock_exit(lock, wproc[w], w)
          /\ pc' = [pc EXCEPT ![w] = "handler"]
  /\ UNCHANGED <<jobs, user_exists, yaml_config, authvars, frame, config_file,
                 device_scale, files, wjob, wproc, wrec, tried, sent, rpc, rjob>>

(* the finally block: _close_printer(printer); an exception of close() is *)
(* caught and printed there (lines 65-70)                                 *)
Close(w, outcome) ==
  /\ pc[w] = "closing"
  /\ conn' = [conn EXCEPT ![w] = "none"]
  /\ close_err' = [close_err EXCEPT ![w] = close_error(outcome)]
  /\ IF werr[w] = Null
     THEN /\ pc' = [pc EXCEPT ![w] = "printed"]
          /\ UNCHANGED lock
     ELSE /\ lock' = lock_exit(lock, wproc[w], w)
          /\ pc' = [pc EXCEPT ![w] = "handler"]
  /\ UNCHANGED <<jobs, user_exists, yaml_config, authvars, frame, config_file,
                 device_scale, files, wjob, wproc, wrec, tried, sent, werr,
                 rpc, rjob>>

(* process_job, lines 362-365: record success and leave the with block.  *)
(* The thread then ends (finally: db.close()) and its locals are gone.    *)
success_write(row) ==
  [row EXCEPT !.status = "success", !.completed_at = "set"]

Finish(w) ==
  LET j == wjob[w] IN
  /\ pc[w] = "printed"
  /\ lock' = lock_exit(lock, wproc[w], w)
  /\ IF jobs[j].exists
     THEN /\ jobs' = [jobs EXCEPT ![j] = success_write(@)]
          /\ pc' = [pc EXCEPT ![w] = "idle"]
          /\ wjob' = [wjob EXCEPT ![w] = 0]
          /\ wproc' = [wproc EXCEPT ![w] = "ui"]
          /\ werr' = [werr EXCEPT ![w] = Null]
     ELSE /\ werr' = [werr EXCEPT ![w] = <<"StaleDataError">>]
          /\ pc' = [pc EXCEPT ![w] = "handler"]
          /\ UNCHANGED <<jobs, wjob, wproc>>
  /\ wrec' = [wrec EXCEPT ![w] = NoRec]
  /\ tried' = [tried EXCEPT ![w] = <<>>]
  /\ sent' = [sent EXCEPT ![w] = <<>>]
  /\ close_err' = [close_err EXCEPT ![w] = Null]
  /\ UNCHANGED <<user_exists, yaml_config, authvars, frame, config_file, device_scale,
                 files, conn, rpc, rjob>>

(* process_job, lines 367-379: the except handler; then the thread ends *)
handler_write_no_message(row, msg) ==
  [row EXCEPT !.status = "failed", !.completed_at = "set"]

handler_write_no_status(row, msg) ==
  [row EXCEPT !.error_message = msg, !.completed_at = "set"]

handler_write(row, msg) ==
  [row EXCEPT !.status = "failed", !.error_message = msg,
              !.completed_at = "set"]

Handler(w) ==
  LET j == wjob[w] IN
  /\ pc[w] = "handler"
  /\ jobs' = IF jobs[j].exists
             THEN [jobs EXCEPT ![j] = handler_write(@, werr[w])]
             ELSE jobs
  /\ pc' = [pc EXCEPT ![w] = "idle"]
  /\ wjob' = [wjob EXCEPT ![w] = 0]
  /\ wproc' = [wproc EXCEPT ![w] = "ui"]
  /\ wrec' = [wrec EXCEPT ![w] = NoRec]
  /\ tried' = [tried EXCEPT ![w] = <<>>]
  /\ sent' = [sent EXCEPT ![w] = <<>>]
  /\ werr' = [werr EXCEPT ![w] = Null]
  /\ close_err' = [close_err EXCEPT ![w] = Null]
  /\ UNCHANGED <<user_exists, yaml_config, authvars, frame, config_file, device_scale,
                 files, lock, conn, rpc, rjob>>

(* ------------------------- retry endpoint ----------------------------- *)
IdleRequests == {r \in Requests : rpc[r] = "idle"}
NextRequest == CHOOSE r \in IdleRequests : \A q \in IdleRequests : r <= q

(* retry_job, lines 164-175: load the job and check that it is failed *)
retry_allowed(row) == row.exists /\ row.status = "failed"

RetryCheck(job_id) ==
  /\ IdleRequests # {}
  /\ retry_allowed(jobs[job_id])
  /\ rpc' = [rpc EXCEPT ![NextRequest] = "checked"]
  /\ rjob' = [rjob EXCEPT ![NextRequest] = job_id]
  /\ UNCHANGED <<jobs, user_exists, yaml_config, authvars, frame, config_file, device_scale, files, lock, pc, wjob, wproc,
                 wlocal>>

(* retry_job, lines 177-184: reset the row, commit, dispatch a worker *)
(* variant of the reset that leaves error_message and completed_at *)
retry_write_status_only(row) == [row EXCEPT !.status = "pending"]

(* variant of the reset that also forgets the uploaded file *)
retry_write_drops_image(row) ==
  [row EXCEPT !.status = "pending", !.error_message = Null,
              !.completed_at = "NULL", !.image_path = Null]

retry_write(row) ==
  [row EXCEPT !.status = "pending", !.error_message = Null,
              !.completed_at = "NULL"]

RetryCommit(r) ==
  LET j == rjob[r] IN
  /\ rpc[r] = "checked"
  /\ rpc' = [rpc EXCEPT ![r] = "idle"]
  /\ rjob' = [rjob EXCEPT ![r] = 0]
  /\ IF jobs[j].exists
     THEN /\ jobs' = [jobs EXCEPT ![j] = retry_write(@)]
          /\ process_job_async("api", j)
     ELSE UNCHANGED <<jobs, pc, wjob, wproc>>
  /\ UNCHANGED <<user_exists, yaml_config, authvars, frame, config_file, device_scale, files, lock, wlocal>>

(* ------------------------- specifications ----------------------------- *)
MaxOps == 12

(* Spec: both programs, several jobs, deletion, and retry requests served *)
(* one at a time.  The device fails at its first call.                    *)
SubmitText ==
  \E t \in Texts, f \in {"medium", "banner"} : show_text_tab(t, f, FALSE)

SubmitImage ==
  \E c \in Captions : show_image_tab(FALSE, c, "large")

WorkerStep(w) ==
  \/ Acquire(w)
  \/ \E o \in {"ok", "render_failed"} : Render(w, o)
  \/ \E u \in {"ok", "no_device"}, f \in FileOutcomes : Connect(w, u, f)
  \/ \E o \in EmitOutcomes : Emit(w, o, 0, "notfound")
  \/ Close(w, "ok")
  \/ Finish(w)
  \/ Handler(w)

RetryAlone ==
  /\ IdleRequests = Requests
  /\ \E j \in JobIds : RetryCheck(j)

Next ==
  \/ SubmitText
  \/ SubmitImage
  \/ delete_user
  \/ \E w \in Workers : WorkerStep(w)
  \/ RetryAlone
  \/ \E r \in Requests : RetryCommit(r)

Spec == Init /\ [][Next]_vars

(* FairSpec: text jobs of both programs with every kind of outcome.       *)
(* Threads are scheduled fairly, and a thread waiting for the lock gets   *)
(* it if the lock is free again and again.                                *)
SubmitFair ==
  \E f \in {"medium", "banner"} : show_text_tab(<<"a">>, f, FALSE)

WorkerStepFair(w) ==
  \/ Acquire(w)
  \/ \E o \in {"ok", "render_failed"} : Render(w, o)
  \/ \E u \in {"ok", "no_device"} : Connect(w, u, "enoent")
  \/ \E o \in {"ok", "device"} : Emit(w, o, 0, "notfound")
  \/ Close(w, "ok")
  \/ Finish(w)
  \/ Handler(w)

NextFair ==
  \/ SubmitFair
  \/ delete_user
  \/ \E w \in Workers : WorkerStepFair(w)
  \/ RetryAlone
  \/ \E r \in Requests : RetryCommit(r)

FairSpec ==
  /\ Init /\ [][NextFair]_vars
  /\ \A w \in Workers : WF_vars(WorkerStepFair(w)) /\ SF_vars(Acquire(w))

(* SpecRetry: one submitted job and concurrent retry requests for it.     *)
SubmitOnce ==
  /\ \A j \in JobIds : ~jobs[j].exists
  /\ \/ SubmitText
     \/ SubmitImage

NextRetry ==
  \/ SubmitOnce
  \/ \E w \in Workers : WorkerStep(w)
  \/ \E j \in JobIds : RetryCheck(j)
  \/ \E r \in Requests : RetryCommit(r)

SpecRetry == Init /\ [][NextRetry]_vars

(* SpecPrint: one job printed by one worker, over every UI input, both    *)
(* configurations and every outcome of rendering, connecting and sending. *)
TextsPrint == Texts \cup {<<"a", "b", "a", "b", "a", "b", "a">>, <<"E_ACUTE">>,
                          <<"a", "\n", "\n", "b", " ", "a">>}

InitPrint ==
  /\ jobs = [j \in JobIds |-> NoJob]
  /\ user_exists = TRUE
  /\ yaml_config \in ConfigSet
  /\ config_file = yaml_config
  /\ device_scale = 0
  /\ files = {}
  /\ lock = [p \in Procs |-> 0]
  /\ pc = [w \in Workers |-> "idle"]
  /\ wjob = [w \in Workers |-> 0]
  /\ wproc = [w \in Workers |-> "ui"]
  /\ wrec = [w \in Workers |-> NoRec]
  /\ conn = [w \in Workers |-> "none"]
  /\ tried = [w \in Workers |-> <<>>]
  /\ sent = [w \in Workers |-> <<>>]
  /\ werr = [w \in Workers |-> Null]
  /\ close_err = [w \in Workers |-> Null]
  /\ rpc = [r \in Requests |-> "idle"]
  /\ rjob = [r \in Requests |-> 0]
  /\ frame = NoFrame
  /\ InitAuth

SubmitTextPrint ==
  /\ \A j \in JobIds : ~jobs[j].exists
  /\ \E t \in TextsPrint, f \in FontSizes \cup {"banner"}, c \in BOOLEAN :
       show_text_tab(t, f, c)

SubmitImagePrint ==
  /\ \A j \in JobIds : ~jobs[j].exists
  /\ \E b \in BOOLEAN, c \in Captions, f \in FontSizes : show_image_tab(b, c, f)

WorkerStepPrint(w) ==
  \/ Acquire(w)
  \/ \E o \in RenderOutcomes : Render(w, o)
  \/ \E u \in UsbOutcomes, f \in FileOutcomes : Connect(w, u, f)
  \/ \E o \in EmitOutcomes, k \in 0..(MaxOps - 1), c \in CowsayOutcomes :
       Emit(w, o, k, c)
  \/ \E o \in CloseOutcomes : Close(w, o)
  \/ Finish(w)
  \/ Handler(w)

NextPrint ==
  \/ SubmitTextPrint
  \/ SubmitImagePrint
  \/ \E c \in ConfigSet : edit_config(c)
  \/ \E w \in Workers : WorkerStepPrint(w)

SpecPrint == InitPrint /\ [][NextPrint]_vars

(* SpecBanner: process_job run on a stored banner text row, whatever its  *)
(* text.  show_text_tab refuses blank text, so the blank rows here are    *)
(* rows that process_job did not get from the UI.                         *)
BlankTexts == {<<>>, <<" ">>, <<" ", "\n">>}
BannerTexts == BlankTexts \cup {<<"a">>, <<"a", " ", "b">>}

InitBanner ==
  /\ \E t \in BannerTexts :
       jobs = [j \in JobIds |->
                 IF j = 1 THEN DingJob("text", "plain", t, Null, "banner")
                 ELSE NoJob]
  /\ user_exists = TRUE
  /\ yaml_config \in ConfigSet
  /\ config_file = yaml_config
  /\ device_scale = 0
  /\ files = {}
  /\ lock = [p \in Procs |-> 0]
  /\ pc = [w \in Workers |-> IF w = 1 THEN "start" ELSE "idle"]
  /\ wjob = [w \in Workers |-> IF w = 1 THEN 1 ELSE 0]
  /\ wproc = [w \in Workers |-> "ui"]
  /\ wrec = [w \in Workers |-> NoRec]
  /\ conn = [w \in Workers |-> "none"]
  /\ tried = [w \in Workers |-> <<>>]
  /\ sent = [w \in Workers |-> <<>>]
  /\ werr = [w \in Workers |-> Null]
  /\ close_err = [w \in Workers |-> Null]
  /\ rpc = [r \in Requests |-> "idle"]
  /\ rjob = [r \in Requests |-> 0]
  /\ frame = NoFrame
  /\ InitAuth

NextBanner == \E w \in Workers : WorkerStepPrint(w)

SpecBanner == InitBanner /\ [][NextBanner]_vars

(* SpecKinds: process_job run on a stored row whose job_type column holds *)
(* any string.  job_type is a free String(50) column; the UI stores only  *)
(* text, image and text_with_image, so the row of another kind here is a  *)
(* row that process_job did not get from the UI.                          *)
StoredKinds == {"text", "image", "text_with_image", "sticker"}
KindFontSizes == {"medium", "banner"}

InitKinds ==
  /\ \E k \in StoredKinds :
       \E f \in IF k = "text" THEN KindFontSizes ELSE {"medium"} :
       jobs = [j \in JobIds |->
                 IF j = 1
                 THEN DingJob(k, "plain", <<"a">>,
                              IF k = "text" THEN Null ELSE UploadPath, f)
                 ELSE NoJob]
  /\ user_exists = TRUE
  /\ yaml_config \in ConfigSet
  /\ config_file = yaml_config
  /\ device_scale = 0
  /\ files = {}
  /\ lock = [p \in Procs |-> 0]
  /\ pc = [w \in Workers |-> IF w = 1 THEN "start" ELSE "idle"]
  /\ wjob = [w \in Workers |-> IF w = 1 THEN 1 ELSE 0]
  /\ wproc = [w \in Workers |-> "ui"]
  /\ wrec = [w \in Workers |-> NoRec]
  /\ conn = [w \in Workers |-> "none"]
  /\ tried = [w \in Workers |-> <<>>]
  /\ sent = [w \in Workers |-> <<>>]
  /\ werr = [w \in Workers |-> Null]
  /\ close_err = [w \in Workers |-> Null]
  /\ rpc = [r \in Requests |-> "idle"]
  /\ rjob = [r \in Requests |-> 0]
  /\ frame = NoFrame
  /\ InitAuth

NextKinds == \E w \in Workers : WorkerStepPrint(w)

SpecKinds == InitKinds /\ [][NextKinds]_vars

(* SpecCalls: the library functions of services/ called on their own,    *)
(* each on every input of a bounded set.                                  *)
MaxLen == 3
MaxWidth == 4

RECURSIVE SeqsUpTo(_, _)
SeqsUpTo(S, n) ==
  IF n = 0 THEN {<<>>}
  ELSE LET shorter == SeqsUpTo(S, n - 1)
       IN shorter \cup {Append(t, c) : t \in shorter, c \in S}

CallTexts == SeqsUpTo(Chars, MaxLen)

(* one call per behaviour: the functions keep no state between calls *)
Call(fn, args, ret) ==
  /\ frame = NoFrame
  /\ InitAuth
  /\ frame' = [fn |-> fn, args |-> args, ret |-> ret]
  /\ UNCHANGED <<jobs, user_exists, yaml_config, authvars, config_file, device_scale,
                 files, lock, pc, wjob, wproc, wlocal, rpc, rjob>>

PrepareTextCall ==
  \E text \in CallTexts, max_width \in 1..MaxWidth, use_cowsay \in BOOLEAN,
     outcome \in CowsayOutcomes :
    Call("prepare_text_for_print", <<text, max_width, use_cowsay, outcome>>,
         prepare_text_for_print(text, max_width, use_cowsay, outcome))

MaxLines == 30

(* texts as calculate_font_size sees them *)
MeasuredTexts == [lines : 1..MaxLines, truetype : BOOLEAN]

TargetHeights ==
  {banner_target_height(c.dots_per_line) : c \in ConfigSet}
    \cup {1, 9, 10, 50, 600}

CalculateFontSizeCall ==
  \E text \in MeasuredTexts, target_height \in TargetHeights :
    Call("calculate_font_size", <<text, target_height>>,
         calculate_font_size(text, target_height))

(* the multipliers GS ! n can carry *)
Multipliers == 1..8

SetFontSizeCall ==
  \E width \in Multipliers, height \in Multipliers :
    Call("_set_font_size", <<width, height>>,
         set_font_size([ConfigA EXCEPT !.fonts.small.width = width,
                                       !.fonts.small.height = height],
                       "small"))

MaxSide == 9
MaxDots == 4

ProcessImageCall ==
  \E w \in 1..MaxSide, h \in 1..MaxSide, max_width \in 1..MaxDots,
     rotate \in BOOLEAN, float_product \in FloatProducts :
    Call("process_image", <<<<w, h>>, max_width, rotate>>,
         process_image_size(<<w, h>>, max_width, rotate, float_product))

MaxWrapLen == 6

WrapTexts ==
  SeqsUpTo({"a", " ", "\n"}, MaxWrapLen)
    \cup {<<"a", "a", "a", "a", " ", "b", "b", "b", "b", " ", "c", "c", "c", "c">>,
          <<"a", "b", " ", "b", "\n", "\n", "b", "b", "b", "b", "b", " ", "a">>}

WrapTextCall ==
  \E text \in WrapTexts, max_width \in (1..MaxWidth) \cup {9} :
    Call("wrap_text_for_printer", <<text, max_width>>,
         wrap_text_for_printer(text, max_width))

NextCalls ==
  \/ PrepareTextCall
  \/ WrapTextCall
  \/ ProcessImageCall
  \/ SetFontSizeCall
  \/ CalculateFontSizeCall

SpecCalls == Init /\ [][NextCalls]_vars

(* ------------------------- PIN login and sessions --------------------- *)
(* create_pin_for_user, lines 33-36: UPDATE ... SET used = True of the     *)
(* user's unused rows                                                      *)
invalidate_unused(pins, user_id) ==
  [i \in 1..Len(pins) |->
     IF pins[i].user_id = user_id /\ ~pins[i].used
     THEN [pins[i] EXCEPT !.used = TRUE]
     ELSE pins[i]]

(* variant of create_pin_for_user that leaves the earlier rows as they are *)
create_pin_for_user_keeps_old(pins, user_id, pin) ==
  Append(pins, AuthPin(user_id, pin))

(* create_pin_for_user: one transaction, committed at line 50 *)
create_pin_for_user(pins, user_id, pin) ==
  Append(invalidate_unused(pins, user_id), AuthPin(user_id, pin))

(* validate_pin, lines 78-83: the rows the query can return *)
matching_pins(pins, user_id, pin) ==
  {i \in 1..Len(pins) :
     /\ pins[i].user_id = user_id
     /\ pins[i].pin = pin
     /\ ~pins[i].used
     /\ ~pins[i].expired}

(* variant of create_session that does not delete the user's session *)
create_session_keeps_old(sessions, user_id, session_token) ==
  sessions \cup {UserSession(user_id, session_token)}

(* create_session: one transaction, committed at line 147 *)
create_session(sessions, user_id, session_token) ==
  {s \in sessions : s.user_id # user_id}
    \cup {UserSession(user_id, session_token)}

(* validate_session: the user's id, or NoUser for None.  Every user here   *)
(* is active; the extension of expires_at keeps expired = FALSE.           *)
validate_session(sessions, session_token) ==
  LET found == {s \in sessions :
                  s.session_token = session_token /\ ~s.expired}
  IN IF found = {} THEN NoUser ELSE (CHOOSE s \in found : TRUE).user_id

delete_session(sessions, session_token) ==
  {s \in sessions : s.session_token # session_token}

(* app.py main: check_session() decides between the ding page and login *)
check_session(c) ==
  validate_session(user_sessions, session_state[c].session_token)

(* SEND PIN button of show_username_step (login.py 60-104), for a username *)
(* that exists: the rate limit passed, create_pin_for_user, then the email *)
show_username_step(c, user_id, pin, email_sent) ==
  /\ check_session(c) = NoUser
  /\ lpc[c] = "idle"
  /\ session_state[c].login_step = "username"
  /\ Len(auth_pins) < MaxPins
  /\ auth_pins' = create_pin_for_user(auth_pins, user_id, pin)
  /\ session_state' =
       IF email_sent
       THEN [session_state EXCEPT ![c].login_username = user_id,
                                  ![c].login_step = "pin"]
       ELSE session_state
  /\ UNCHANGED <<printvars, user_sessions, next_token, lpc, lrec>>

(* BACK button of show_pin_step *)
back(c) ==
  /\ check_session(c) = NoUser
  /\ lpc[c] = "idle"
  /\ session_state[c].login_step = "pin"
  /\ session_state' = [session_state EXCEPT ![c].login_step = "username"]
  /\ UNCHANGED <<printvars, auth_pins, user_sessions, next_token, lpc, lrec>>

(* LOGIN button, validate_pin lines 69-86: the two queries.  Without a     *)
(* matching row validate_pin returns None and the handler returns.         *)
PinCheck(c, pin) ==
  LET found == matching_pins(auth_pins, session_state[c].login_username, pin)
  IN
  /\ check_session(c) = NoUser
  /\ lpc[c] = "idle"
  /\ session_state[c].login_step = "pin"
  /\ IF found = {}
     THEN UNCHANGED <<lpc, lrec>>
     ELSE \E i \in found :
            /\ lrec' = [lrec EXCEPT ![c] = i]
            /\ lpc' = [lpc EXCEPT ![c] = "found"]
  /\ UNCHANGED <<printvars, auth_pins, user_sessions, next_token,
                 session_state>>

(* validate_pin lines 89-92: auth_pin.used = True, commit, return user *)
PinCommit(c) ==
  /\ lpc[c] = "found"
  /\ auth_pins' = [auth_pins EXCEPT ![lrec[c]].used = TRUE]
  /\ lpc' = [lpc EXCEPT ![c] = "validated"]
  /\ UNCHANGED <<printvars, user_sessions, next_token, session_state, lrec>>

(* show_pin_step, login.py 154-186: create_session and the session state *)
LoginSession(c) ==
  /\ lpc[c] = "validated"
  /\ next_token <= MaxTokens
  /\ user_sessions' = create_session(user_sessions,
                                     session_state[c].login_username,
                                     next_token)
  /\ next_token' = next_token + 1
  /\ session_state' =
       [session_state EXCEPT ![c] =
          [login_step |-> "username", login_username |-> NoUser,
           session_token |-> next_token]]
  /\ lpc' = [lpc EXCEPT ![c] = "idle"]
  /\ lrec' = [lrec EXCEPT ![c] = 0]
  /\ UNCHANGED <<printvars, auth_pins>>

(* LOGOUT button, app.py 83-96: delete_session and clear the session state *)
logout(c) ==
  /\ check_session(c) # NoUser
  /\ lpc[c] = "idle"
  /\ user_sessions' =
       delete_session(user_sessions, session_state[c].session_token)
  /\ session_state' = [session_state EXCEPT ![c] = NoSessionState]
  /\ UNCHANGED <<printvars, auth_pins, next_token, lpc, lrec>>

(* utcnow() passes the expires_at of a PIN row or of a session row *)
PinExpires(i) ==
  /\ i \in 1..Len(auth_pins)
  /\ ~auth_pins[i].expired
  /\ auth_pins' = [auth_pins EXCEPT ![i].expired = TRUE]
  /\ UNCHANGED <<printvars, user_sessions, next_token, session_state, lpc,
                 lrec>>

SessionExpires(s) ==
  /\ s \in user_sessions
  /\ ~s.expired
  /\ user_sessions' = (user_sessions \ {s}) \cup {[s EXCEPT !.expired = TRUE]}
  /\ UNCHANGED <<printvars, auth_pins, next_token, session_state, lpc, lrec>>

(* SpecAuth: browser sessions logging in and out, interleaved at the       *)
(* commits of the login handler.                                           *)
NextAuth ==
  \/ \E c \in Clients, u \in UserIds, p \in Pins, e \in BOOLEAN :
       show_username_step(c, u, p, e)
  \/ \E c \in Clients : back(c)
  \/ \E c \in Clients, p \in Pins : PinCheck(c, p)
  \/ \E c \in Clients : PinCommit(c)
  \/ \E c \in Clients : LoginSession(c)
  \/ \E c \in Clients : logout(c)
  \/ \E i \in 1..MaxPins : PinExpires(i)
  \/ \E s \in user_sessions : SessionExpires(s)

SpecAuth == Init /\ [][NextAuth]_vars

(* ---------------------------- properties ------------------------------ *)
Connected(w) == conn[w] # "none"
InFlight(j) == {w \in Workers : pc[w] # "idle" /\ wjob[w] = j}

LegalChanges ==
  { <<"pending", "processing">>, <<"processing", "success">>,
    <<"processing", "failed">>, <<"failed", "pending">> }

RetryCommits(j) ==
  \E r \in Requests : rpc[r] = "checked" /\ rjob[r] = j /\ rpc'[r] = "idle"

(* C1: every change of a job's status is pending->processing,             *)
(* processing->success, processing->failed or failed->pending, and the    *)
(* last is made only by retry_job.                                        *)
C1_StatusChangesLegal ==
  [][\A j \in JobIds :
       (jobs[j].exists /\ jobs'[j].exists /\ jobs'[j].status # jobs[j].status)
       => /\ <<jobs[j].status, jobs'[j].status>> \in LegalChanges
          /\ jobs'[j].status = "pending" => RetryCommits(j)]_vars

(* C2: among the workers of one PrinterService at most one has a device   *)
(* connection open at any instant.                                        *)
C2_OneConnectionPerService ==
  \A p \in Procs :
    Cardinality({w \in Workers : wproc[w] = p /\ Connected(w)}) <= 1

C2_Witness ==
  \E w \in Workers, v \in Workers :
    /\ w # v
    /\ wproc[w] = wproc[v]
    /\ pc[w] = "connected"
    /\ pc[v] = "start"

(* C3: a worker started by a UI submission and a worker started by an API *)
(* retry never have device connections open at the same time.             *)
C3_OneConnectionOverall ==
  \A w \in Workers, v \in Workers :
    (Connected(w) /\ Connected(v) /\ wproc[w] = "ui" /\ wproc[v] = "api")
    => FALSE

(* C4: an exception raised by rendering or by the device adapter takes    *)
(* the worker to its handler, which leaves the job failed with a          *)
(* non-empty error_message and a completed_at, and the thread ends.       *)
C4_ExceptionMarksFailed ==
  [][\A w \in Workers :
       /\ werr'[w] # Null => pc'[w] \in {"closing", "handler"}
       /\ (pc[w] = "closing" /\ werr[w] # Null /\ pc'[w] # "closing")
          => pc'[w] = "handler"
       /\ (pc[w] = "handler" /\ pc'[w] # "handler")
          => /\ pc'[w] = "idle"
             /\ jobs[wjob[w]].exists
                => /\ jobs'[wjob[w]].status = "failed"
                   /\ Truthy(jobs'[wjob[w]].error_message)
                   /\ jobs'[wjob[w]].completed_at # "NULL"]_vars

C4_Witness ==
  \E j \in JobIds :
    /\ jobs[j].exists
    /\ jobs[j].status = "failed"
    /\ jobs[j].error_message = <<"Error printing image", "Error processing image">>
    /\ jobs[j].completed_at = "set"

InsideWith == {"printing", "rendered", "connected", "closing", "printed"}

(* C5: the lock of a PrinterService is held only by a worker inside its   *)
(* with block, whatever the outcome of the jobs before, and a worker      *)
(* waiting for the lock always gets past it.                              *)
C5_LockReleased ==
  /\ [](\A p \in Procs :
          lock[p] # 0 => wproc[lock[p]] = p /\ pc[lock[p]] \in InsideWith)
  /\ [](\A w \in Workers : pc[w] \in InsideWith => lock[wproc[w]] = w)
  /\ \A w \in Workers : (pc[w] = "start") ~> (pc[w] # "start")

C5_Witness ==
  \E w \in Workers, v \in Workers :
    /\ w # v
    /\ wproc[w] = wproc[v]
    /\ pc[w] = "handler"
    /\ pc[v] = "start"
    /\ lock[wproc[v]] = 0

(* C6: a job with a worker in flight eventually has status success or     *)
(* failed (a job deleted with its user has no status to reach).           *)
C6_DispatchedJobSettles ==
  \A j \in JobIds :
    (jobs[j].exists /\ InFlight(j) # {})
    ~> (~jobs[j].exists \/ jobs[j].status \in {"success", "failed"})

C6_Witness ==
  \E j \in JobIds, k \in JobIds :
    /\ j # k
    /\ jobs[j].exists /\ jobs[j].status = "processing"
    /\ jobs[k].exists /\ jobs[k].status = "pending" /\ InFlight(k) # {}

(* C7: a connection is open only inside a print operation of the worker   *)
(* that holds the lock, each operation opens at most one, and none is     *)
(* open once the operation has returned or raised.                        *)
C7_ConnectionClosedOnExit ==
  \A w \in Workers :
    /\ Connected(w) => lock[wproc[w]] = w /\ pc[w] \in {"connected", "closing"}
    /\ Cardinality({i \in 1..Len(tried[w]) : tried[w][i].result = "ok"}) <= 1

C7_Witness ==
  \E w \in Workers :
    /\ pc[w] = "handler"
    /\ tried[w] # <<>>
    /\ tried[w][Len(tried[w])].result = "ok"
    /\ ~Connected(w)

ConnectionErrorText(t) ==
  <<"Failed to connect to printer",
    "USB failed", t[1].result, "File failed", t[2].result>>

EndsWith(msg, tail) ==
  /\ Len(msg) >= Len(tail)
  /\ SubSeq(msg, Len(msg) - Len(tail) + 1, Len(msg)) = tail

C8_AttemptsInOrder(w) ==
  LET t == tried[w] IN
  /\ Len(t) <= 2
  /\ Len(t) >= 1 => t[1].transport = "usb"
  /\ Len(t) = 1 => t[1].result = "ok"
  /\ Len(t) = 2 => t[1].result # "ok" /\ t[2].transport = "file"
  /\ Connected(w) => t # <<>> /\ t[Len(t)].result = "ok"
                     /\ conn[w] = t[Len(t)].transport
  /\ (t # <<>> /\ t[Len(t)].result # "ok")
     => /\ Len(t) = 2
        /\ pc[w] = "handler"
        /\ EndsWith(werr[w], ConnectionErrorText(t))

(* C8: _connect_printer tries USB first and the file device only after    *)
(* USB failed, returns the first connection that opens, and raises only   *)
(* when both failed, with both causes in the message the job ends with.   *)
C8_ConnectFallback ==
  [][\A w \in Workers :
       /\ C8_AttemptsInOrder(w)'
       /\ (pc[w] = "handler" /\ pc'[w] = "idle" /\ tried[w] # <<>>
           /\ tried[w][Len(tried[w])].result # "ok" /\ jobs[wjob[w]].exists)
          => /\ jobs'[wjob[w]].status = "failed"
             /\ EndsWith(jobs'[wjob[w]].error_message,
                         ConnectionErrorText(tried[w]))]_vars

C8_Witness ==
  \E j \in JobIds :
    /\ jobs[j].exists
    /\ jobs[j].status = "failed"
    /\ EndsWith(jobs[j].error_message,
                <<"Failed to connect to printer",
                  "USB failed", "busy", "File failed", "enoent">>)

Returned(w, path) ==
  pc[w] \in {"closing", "printed"} /\ werr[w] = Null /\ print_path(wrec[w]) = path

CutLen == IF yaml_config.cut_paper THEN 1 ELSE 0

(* C9: a regular text print that returned normally has sent, in order:    *)
(* feed_before newlines, reset to 1x1, the size command, the prepared     *)
(* text, one newline, reset to 1x1, feed_after newlines, and a cut        *)
(* exactly when cut_paper is set.                                         *)
C9_TextOrder ==
  \A w \in Workers :
    Returned(w, "text") =>
      LET N == yaml_config.feed_before
          M == yaml_config.feed_after
          s == sent[w]
      IN /\ Len(s) = N + 5 + M + CutLen
         /\ \A i \in 1..N : s[i] = OpNl
         /\ s[N + 1] = OpRaw(0)
         /\ s[N + 2].op = "raw"
         /\ s[N + 3].op = "text" /\ s[N + 3] # OpNl
         /\ s[N + 4] = OpNl
         /\ s[N + 5] = OpRaw(0)
         /\ \A i \in (N + 6)..(N + 5 + M) : s[i] = OpNl
         /\ yaml_config.cut_paper => s[Len(s)] = OpCut
         /\ \A i \in 1..Len(s) : s[i] = OpCut => (yaml_config.cut_paper /\ i = Len(s))

C9_Witness ==
  \E w \in Workers :
    /\ Returned(w, "text")
    /\ yaml_config.cut_paper
    /\ yaml_config.feed_before # yaml_config.feed_after
    /\ sent[w][Len(sent[w])] = OpCut

HasCaption(w) ==
  Truthy(image_caption(wrec[w])) /\ ~image_is_banner(wrec[w])

IsCaptionBlock(b) ==
  \/ /\ Len(b) = 4
     /\ b[1].op = "raw" /\ b[2].op = "text" /\ b[2] # OpNl
     /\ b[3] = OpNl /\ b[4] = OpRaw(0)
  \/ /\ Len(b) = 5
     /\ b[1] = OpRaw(0) /\ b[2].op = "raw" /\ b[3].op = "text" /\ b[3] # OpNl
     /\ b[4] = OpNl /\ b[5] = OpRaw(0)

ImageFrame(w, block(_)) ==
  LET N == yaml_config.feed_before
      M == yaml_config.feed_after
      s == sent[w]
      B == Len(s) - (N + 1 + M + CutLen)
  IN /\ B >= 0
     /\ \A i \in 1..N : s[i] = OpNl
     /\ s[N + 1].op = "image"
     /\ IF HasCaption(w) THEN block(SubSeq(s, N + 2, N + 1 + B)) ELSE B = 0
     /\ \A i \in (N + 2 + B)..(N + 1 + B + M) : s[i] = OpNl
     /\ yaml_config.cut_paper => s[Len(s)] = OpCut

(* C10 as stated: an image print that returned normally has sent          *)
(* feed_before newlines, the bitmap, the caption block, feed_after        *)
(* newlines and the cut; the caption block is there exactly when a        *)
(* caption is given outside banner mode and is exactly the size command   *)
(* (with or without its leading reset), the caption, a newline, a reset.  *)
C10_ImageOrderAsStated ==
  \A w \in Workers : Returned(w, "image") => ImageFrame(w, IsCaptionBlock)

IsCaptionBlockWithNewline(b) ==
  /\ Len(b) = 6
  /\ b[1] = OpNl /\ b[2] = OpRaw(0) /\ b[3].op = "raw"
  /\ b[4].op = "text" /\ b[4] # OpNl
  /\ b[5] = OpNl /\ b[6] = OpRaw(0)

(* C10 amended: the caption block is a newline, reset to 1x1, the size    *)
(* command, the caption, a newline, reset to 1x1.                         *)
C10_ImageOrder ==
  \A w \in Workers :
    Returned(w, "image") => ImageFrame(w, IsCaptionBlockWithNewline)

C10_Witness ==
  \E w \in Workers : Returned(w, "image") /\ HasCaption(w)

IsRaw(o) == o.op = "raw"

ScaleCommands(w) == SelectSeq(sent[w], IsRaw)

PrintsWithFont(w) ==
  Returned(w, "text") \/ (Returned(w, "image") /\ HasCaption(w))

(* C11: a text print or a captioned image print that returned normally    *)
(* has sent exactly three font-scale commands, whatever the font size:    *)
(* the 1x1 reset, the size command of the font, the 1x1 reset.            *)
C11_ScaleResetSetReset ==
  \A w \in Workers :
    PrintsWithFont(w) =>
      LET r == ScaleCommands(w) IN
      /\ Len(r) = 3
      /\ r[1] = OpRaw(0)
      /\ r[2] = set_font_size(yaml_config, font_size_of(wrec[w]))[2]
      /\ r[3] = OpRaw(0)

C11_Witness ==
  \E w \in Workers :
    /\ Returned(w, "text")
    /\ font_size_of(wrec[w]) = "medium"
    /\ ScaleCommands(w) = <<OpRaw(0), OpRaw(1), OpRaw(0)>>

(* C12: the last font-scale command the printer has received from the    *)
(* prints made so far, finished normally or by an exception, is the 1x1   *)
(* reset (each print sends its calls in one step, so in every state the   *)
(* prints made so far are finished).                                      *)
C12_ScaleNeverLeaks == device_scale = 0

RenderingFailed(w) ==
  /\ werr[w] # Null
  /\ werr[w][Len(werr[w])] \in {"Error processing image", "render_failed",
                                "rotate_failed", "Text cannot be empty"}

(* C13: a print whose rendering (banner rendering, image processing)      *)
(* raised has opened no connection and has sent nothing to the printer.   *)
C13_RenderBeforeConnect ==
  \A w \in Workers :
    RenderingFailed(w) => tried[w] = <<>> /\ sent[w] = <<>>

ReturnedOk(w) == pc[w] \in {"closing", "printed"} /\ werr[w] = Null

TextPayloads(w) ==
  {i \in 1..Len(sent[w]) : sent[w][i].op = "text" /\ sent[w][i] # OpNl}

ImageOps(w) == {i \in 1..Len(sent[w]) : sent[w][i].op = "image"}

(* the text emission path: the prepared text, stylized for cowsay, no bitmap *)
TextPathTaken(w) ==
  LET rec == wrec[w]
      cowsay == rec.content_type = "cowsay"
  IN /\ ImageOps(w) = {}
     /\ \E i \in TextPayloads(w), o \in CowsayOutcomes :
          sent[w][i].s =
            prepare_text_for_print(
              rec.text_content,
              get_font_size_config(yaml_config, font_size_of(rec), cowsay),
              cowsay, o)

(* the image emission path with the rendered banner and no caption *)
BannerPathTaken(w) ==
  /\ TextPayloads(w) = {}
  /\ ScaleCommands(w) = <<>>
  /\ \E i \in ImageOps(w) : sent[w][i] = OpImage(PathOf("banner", wjob[w]))
  /\ <<"banner", wjob[w]>> \in files

(* C14 as stated: a text job that printed normally took the banner path   *)
(* if its content_type is banner and the text path otherwise, whatever    *)
(* its font_size.                                                         *)
C14_RoutedByContentStyle ==
  \A w \in Workers :
    (ReturnedOk(w) /\ wrec[w].job_type = "text") =>
      IF wrec[w].content_type = "banner"
      THEN BannerPathTaken(w) ELSE TextPathTaken(w)

(* C14 amended: a text job that printed normally took the banner path if  *)
(* its font_size is banner and the text path otherwise; its content_type  *)
(* only chooses between plain and cowsay text.                            *)
C14_RoutedByFontSize ==
  \A w \in Workers :
    (ReturnedOk(w) /\ wrec[w].job_type = "text") =>
      IF font_size_of(wrec[w]) = "banner"
      THEN BannerPathTaken(w) ELSE TextPathTaken(w)

C14_Witness ==
  \E w \in Workers :
    /\ ReturnedOk(w)
    /\ wrec[w].job_type = "text"
    /\ wrec[w].content_type = "plain"
    /\ wrec[w].font_size = "banner"
    /\ BannerPathTaken(w)

(* C15: an image job that printed normally sent the bitmap processed      *)
(* with rotation exactly when its content_type is banner, and no caption; *)
(* a text_with_image job sent the bitmap processed without rotation and   *)
(* its text_content as the caption.                                       *)
C15_ImageRouting ==
  \A w \in Workers :
    LET rec == wrec[w]
        bitmap(rotate) ==
          OpImage(<<"processed_upload.png",
                    IF rotate THEN "rotated" ELSE "upright",
                    ToString(yaml_config.dots_per_line)>>)
    IN
    (ReturnedOk(w) /\ rec.job_type \in {"image", "text_with_image"}) =>
      /\ Cardinality(ImageOps(w)) = 1
      /\ rec.job_type = "image" =>
           /\ \A i \in ImageOps(w) :
                sent[w][i] = bitmap(rec.content_type = "banner")
           /\ TextPayloads(w) = {}
           /\ ScaleCommands(w) = <<>>
      /\ rec.job_type = "text_with_image" =>
           /\ \A i \in ImageOps(w) : sent[w][i] = bitmap(FALSE)
           /\ Cardinality(TextPayloads(w)) = 1
           /\ \A i \in TextPayloads(w) :
                /\ i > CHOOSE k \in ImageOps(w) : TRUE
                /\ sent[w][i].s =
                     prepare_text_for_print(
                       rec.text_content,
                       get_font_size_config(yaml_config, font_size_of(rec),
                                            FALSE),
                       FALSE, "notfound")

C15_Witness ==
  \E w \in Workers :
    /\ ReturnedOk(w)
    /\ wrec[w].job_type = "image"
    /\ wrec[w].content_type = "banner"
    /\ \E i \in ImageOps(w) : sent[w][i].s[2] = "rotated"

Dispatched(j) == {w \in Workers : pc[w] = "start" /\ wjob[w] = j}

(* C16: retry_job goes past its status check only for a job that is       *)
(* failed, and its check changes no job and starts no worker; its reset   *)
(* of a failed job sets status pending, clears error_message and          *)
(* completed_at, leaves every other field and job alone and starts        *)
(* exactly one worker for the job; no worker of the API program is        *)
(* started in any other way.                                              *)
C16_RetryOnlyFailed ==
  [][/\ \A r \in Requests :
          /\ (rpc[r] = "idle" /\ rpc'[r] = "checked")
             => /\ jobs[rjob'[r]].exists
                /\ jobs[rjob'[r]].status = "failed"
                /\ jobs' = jobs
                /\ pc' = pc
          /\ \A j \in JobIds :
               (rpc[r] = "checked" /\ rpc'[r] = "idle" /\ rjob[r] = j
                /\ jobs[j].exists)
               =>
                /\ jobs[j].status = "failed"
                /\ jobs' = [jobs EXCEPT ![j] =
                              [@ EXCEPT !.status = "pending",
                                        !.error_message = Null,
                                        !.completed_at = "NULL"]]
                /\ Cardinality(Dispatched(j)' \ Dispatched(j)) = 1
                /\ \A k \in JobIds \ {j} : Dispatched(k)' \subseteq Dispatched(k)
     /\ \A j \in JobIds, w \in Workers :
          (w \in Dispatched(j)' \ Dispatched(j) /\ wproc'[w] = "api")
          => RetryCommits(j) /\ jobs[j].status = "failed"]_vars

C16_Witness ==
  \E j \in JobIds, w \in Workers :
    /\ jobs[j].exists
    /\ jobs[j].status = "pending"
    /\ jobs[j].error_message = Null
    /\ jobs[j].completed_at = "NULL"
    /\ w \in Dispatched(j)
    /\ wproc[w] = "api"

(* C17: in every state a job's completed_at is set exactly when its       *)
(* status is success or failed.                                           *)
C17_CompletedIffTerminal ==
  \A j \in JobIds :
    jobs[j].exists =>
      (jobs[j].completed_at # "NULL" <=> jobs[j].status \in {"success", "failed"})

(* C18: in every state a job whose status is pending, processing or       *)
(* success has no error_message.                                          *)
C18_ErrorOnlyOnFailed ==
  \A j \in JobIds :
    (jobs[j].exists /\ jobs[j].status # "failed") => jobs[j].error_message = Null

(* the print of worker w returns normally in this step *)
PrintReturns(w) ==
  pc[w] = "connected" /\ pc'[w] = "closing" /\ werr'[w] = Null

CutSent(ops) == \E i \in 1..Len(ops) : ops[i] = OpCut

(* C19: every print that returns normally used the configuration values   *)
(* that config.yaml holds at the time of the print: it cut the paper      *)
(* exactly when the file's cut flag is set, and its image was fitted to   *)
(* the file's dots per line.                                              *)
C19_UsesCurrentConfigFile ==
  [][\A w \in Workers :
       PrintReturns(w) =>
         /\ CutSent(sent'[w]) <=> config_file.cut_paper
         /\ \A i \in 1..Len(sent'[w]) :
              (sent'[w][i].op = "image" /\ print_path(wrec[w]) = "image") =>
                sent'[w][i].s[3] = ToString(config_file.dots_per_line)]_vars

(* worker w is in its rendering stage: about to render the banner, or     *)
(* about to prepare the text or process the image of its job              *)
Rendering(w) ==
  \/ pc[w] = "printing" /\ print_path(wrec[w]) = "banner"
  \/ pc[w] = "connected" /\ print_path(wrec[w]) \in {"text", "image"}

(* C20: rendering is outside the serialized section: while one worker is  *)
(* in its rendering stage, another worker dispatched in the same service  *)
(* is not kept from starting its own job, so that the two can render at   *)
(* the same time.                                                         *)
C20_RenderingNotSerialized ==
  \A w1, w2 \in Workers :
    (w1 # w2 /\ wproc[w1] = wproc[w2] /\ Rendering(w1) /\ pc[w2] = "start") =>
      lock_free(lock, wproc[w2])

GeneratorFailures == {"notfound", "timeout", "nonzero"}

(* C21: when the generator is not found, times out or exits nonzero,       *)
(* prepare_text_for_print with use_cowsay set returns the encoded text     *)
(* wrapped to max_width, which is what it returns without use_cowsay.      *)
C21_CowsayFallback ==
  (/\ frame.fn = "prepare_text_for_print"
   /\ frame.args[3]
   /\ frame.args[4] \in GeneratorFailures) =>
    frame.ret = wrap_text_for_printer(encode_for_escpos(frame.args[1]),
                                      frame.args[2])

C21_Witness ==
  /\ frame.fn = "prepare_text_for_print"
  /\ frame.args[3]
  /\ frame.args[4] = "timeout"
  /\ frame.args[1] = <<"a", "E_ACUTE", "b">>
  /\ frame.ret = <<"a", "e", "\n", "b">>

FontSizeReturned == frame.fn = "calculate_font_size"

(* C22: calculate_font_size measures at most 20 sizes and returns a size   *)
(* in 10..500, which is 50 when no measured size was at or below the       *)
(* target height.                                                          *)
C22_BoundedSearchInRange ==
  FontSizeReturned =>
    LET text == frame.args[1]
        target == frame.args[2]
        measured == frame.ret.measured
    IN /\ Len(measured) <= 20
       /\ frame.ret.size \in 10..500
       /\ (\A i \in 1..Len(measured) : text_height(text, measured[i]) > target)
            => frame.ret.size = 50

(* C23: measured height being non-decreasing in the size, the size that    *)
(* calculate_font_size returns has a height of at most the target, and is  *)
(* the largest such size in 10..500 or has exactly the target height.      *)
C23_LargestFittingSize ==
  FontSizeReturned =>
    LET text == frame.args[1]
        target == frame.args[2]
        size == frame.ret.size
    IN /\ text_height(text, size) <= target
       /\ \/ text_height(text, size) = target
          \/ /\ size \in 10..500
             /\ \A s \in 10..500 : text_height(text, s) <= target => s <= size

BannerPrintEnded(j) ==
  /\ jobs[j].exists
  /\ jobs[j].job_type = "text"
  /\ jobs[j].font_size = "banner"
  /\ jobs[j].status \in {"success", "failed"}
  /\ <<"banner", j>> \in files

(* C25: once the banner print of job j has ended after rendering, with     *)
(* success or with failure, banner_temp_j is gone and banner_j exists,     *)
(* and no artifact of another job exists or was removed.                   *)
C25_TempDiscardedRotatedKept ==
  \A j \in JobIds :
    BannerPrintEnded(j) =>
      /\ <<"banner_temp", j>> \notin files
      /\ \A f \in files : f[2] = j

BlankBannerRow(row) ==
  /\ row.job_type = "text"
  /\ row.font_size = "banner"
  /\ row.text_content \in BlankTexts

(* C26: a banner text job with empty or whitespace-only text never ends    *)
(* in success; when it has ended it is failed with the renderer's          *)
(* validation message, and its worker opens no connection and sends        *)
(* nothing to the device.                                                  *)
C26_BlankBannerFails ==
  /\ \A j \in JobIds :
       (jobs[j].exists /\ BlankBannerRow(jobs[j])) =>
         /\ jobs[j].status # "success"
         /\ jobs[j].status = "failed" =>
              jobs[j].error_message =
                <<"Error printing text", "Error printing banner",
                  "Text cannot be empty">>
  /\ \A w \in Workers :
       BlankBannerRow(wrec[w]) =>
         /\ conn[w] = "none"
         /\ tried[w] = <<>>
         /\ sent[w] = <<>>
         /\ pc[w] \notin {"rendered", "connected", "closing", "printed"}

C26_Witness ==
  /\ jobs[1].exists
  /\ BlankBannerRow(jobs[1])
  /\ jobs[1].status = "failed"
  /\ jobs[1].error_message # Null
  /\ files = {}

CloseRaised(w) == close_err[w] # Null

(* C27: an exception of close() changes nothing: the print returns or      *)
(* raises as its emission did, a job whose emission completed ends in      *)
(* success without error_message, and a job whose emission failed ends in  *)
(* failed with the emission error, not the close error, as error_message.  *)
C27_CloseErrorSwallowed ==
  [][\A w \in Workers :
       /\ (pc[w] = "closing" /\ pc'[w] # "closing" /\ CloseRaised(w)') =>
            /\ werr'[w] = werr[w]
            /\ pc'[w] = IF werr[w] = Null THEN "printed" ELSE "handler"
       /\ (CloseRaised(w) /\ pc[w] = "printed" /\ pc'[w] = "idle") =>
            /\ jobs'[wjob[w]].status = "success"
            /\ jobs'[wjob[w]].error_message = Null
       /\ (CloseRaised(w) /\ pc[w] = "handler" /\ pc'[w] = "idle") =>
            /\ jobs'[wjob[w]].status = "failed"
            /\ jobs'[wjob[w]].error_message = werr[w]
            /\ werr[w][Len(werr[w])] \in {"device write failed",
                                          "Error processing image"}]_vars

C27_Witness ==
  \E w \in Workers :
    /\ CloseRaised(w)
    /\ pc[w] = "handler"
    /\ werr[w][Len(werr[w])] = "device write failed"
    /\ conn[w] = "none"

(* C28: with w x h the size after the optional rotation, process_image     *)
(* saves an image of size w x h when w <= max_width, and otherwise one of  *)
(* width max_width whose height is within 1 of h * max_width / w.          *)
C28_FitsWidthNeverUpscales ==
  frame.fn = "process_image" =>
    LET size == frame.args[1]
        max_width == frame.args[2]
        w == IF frame.args[3] THEN size[2] ELSE size[1]
        h == IF frame.args[3] THEN size[1] ELSE size[2]
        out == frame.ret
    IN /\ out.ok
       /\ w <= max_width => out.size = <<w, h>>
       /\ w > max_width =>
            /\ out.size[1] = max_width
            /\ out.size[2] * w <= h * max_width + w
            /\ out.size[2] * w >= h * max_width - w

(* the words of a paragraph: its maximal runs of non-blank characters *)
RECURSIVE WordsOf(_, _)
WordsOf(p, word) ==
  IF p = <<>> THEN (IF word = <<>> THEN <<>> ELSE <<word>>)
  ELSE IF Head(p) = " "
  THEN (IF word = <<>> THEN <<>> ELSE <<word>>) \o WordsOf(Tail(p), <<>>)
  ELSE WordsOf(Tail(p), Append(word, Head(p)))

(* greedy word-wrap: a word goes on the current line if it fits after one  *)
(* blank, and starts the next line otherwise                               *)
RECURSIVE GreedyLines(_, _, _)
GreedyLines(words, width, cur) ==
  IF words = <<>> THEN <<cur>>
  ELSE IF Len(cur) + 1 + Len(Head(words)) <= width
  THEN GreedyLines(Tail(words), width, cur \o <<" ">> \o Head(words))
  ELSE <<cur>> \o GreedyLines(Tail(words), width, Head(words))

(* words separated by single blanks, none longer than the width *)
PlainParagraph(p, width) ==
  /\ p # <<>>
  /\ p[1] # " "
  /\ p[Len(p)] # " "
  /\ \A i \in 1..(Len(p) - 1) : ~(p[i] = " " /\ p[i + 1] = " ")
  /\ \A i \in 1..Len(WordsOf(p, <<>>)) : Len(WordsOf(p, <<>>)[i]) <= width

ParagraphsOf(text) == split_lines(text)

RECURSIVE JoinWithNewlines(_)
JoinWithNewlines(ls) ==
  IF ls = <<>> THEN <<>>
  ELSE IF Len(ls) = 1 THEN ls[1]
  ELSE ls[1] \o <<"\n">> \o JoinWithNewlines(Tail(ls))

NonBlanks(t) == SelectSeq(t, LAMBDA c : c \notin {" ", "\n"})

(* the pattern of a list of lines, given which of them are blank: one     *)
(* "blank" per blank line, one "text" per run of other lines              *)
RECURSIVE BlankPattern(_, _)
BlankPattern(blank, inText) ==
  IF blank = <<>> THEN <<>>
  ELSE IF Head(blank)
  THEN <<"blank">> \o BlankPattern(Tail(blank), FALSE)
  ELSE (IF inText THEN <<>> ELSE <<"text">>)
       \o BlankPattern(Tail(blank), TRUE)

AllBlanks(line) == \A i \in 1..Len(line) : line[i] = " "

(* the lines of the greedy word-wrap of each paragraph in turn, a blank     *)
(* paragraph giving one empty line                                         *)
RECURSIVE GreedyText(_, _)
GreedyText(paragraphs, width) ==
  IF paragraphs = <<>> THEN <<>>
  ELSE (IF AllBlanks(Head(paragraphs)) THEN << <<>> >>
        ELSE GreedyLines(Tail(WordsOf(Head(paragraphs), <<>>)), width,
                         Head(WordsOf(Head(paragraphs), <<>>))))
       \o GreedyText(Tail(paragraphs), width)

(* C29: wrap_text_for_printer wraps each newline-delimited paragraph on    *)
(* its own: every output line has at most max_width characters; no         *)
(* non-blank character is lost or reordered; a paragraph of words          *)
(* separated by single blanks comes out as its greedy word-wrap; and each  *)
(* blank input line yields one empty output line in the same place among   *)
(* the text.                                                               *)
C29_GreedyWrapPerParagraph ==
  frame.fn = "wrap_text_for_printer" =>
    LET text == frame.args[1]
        max_width == frame.args[2]
        out == frame.ret
        paragraphs == ParagraphsOf(text)
        lines == ParagraphsOf(out)
    IN /\ \A i \in 1..Len(lines) : Len(lines[i]) <= max_width
       /\ NonBlanks(out) = NonBlanks(text)
       /\ BlankPattern([i \in 1..Len(lines) |-> lines[i] = <<>>], FALSE)
            = BlankPattern([i \in 1..Len(paragraphs) |->
                              AllBlanks(paragraphs[i])], FALSE)
       /\ (\A i \in 1..Len(paragraphs) :
              AllBlanks(paragraphs[i])
                \/ PlainParagraph(paragraphs[i], max_width)) =>
            out = JoinWithNewlines(GreedyText(paragraphs, max_width))

C29_Witness ==
  /\ frame.fn = "wrap_text_for_printer"
  /\ frame.args = <<<<"a", "a", "a", "a", " ", "b", "b", "b", "b", " ", "c", "c", "c", "c">>, 9>>
  /\ frame.ret = <<"a", "a", "a", "a", " ", "b", "b", "b", "b", "\n", "c", "c", "c", "c">>

KindFieldsConsistent(row) ==
  /\ row.job_type = "text" => row.image_path = Null
  /\ row.job_type = "text_with_image" =>
       Truthy(row.text_content) /\ Truthy(row.image_path)

(* C30: after every step, each job in the table satisfies: kind text has   *)
(* no image_path, kind text_with_image has non-empty text_content and      *)
(* image_path; and no step changes the kind, text_content or image_path    *)
(* of a job that exists before and after it.                               *)
C30_KindFieldsFixed ==
  [][\A j \in JobIds :
       /\ jobs'[j].exists => KindFieldsConsistent(jobs'[j])
       /\ (jobs[j].exists /\ jobs'[j].exists) =>
            /\ jobs'[j].job_type = jobs[j].job_type
            /\ jobs'[j].text_content = jobs[j].text_content
            /\ jobs'[j].image_path = jobs[j].image_path]_vars

C30_Witness ==
  \E j \in JobIds, w \in Workers :
    /\ jobs[j].exists
    /\ jobs[j].job_type = "text_with_image"
    /\ jobs[j].status = "processing"
    /\ wjob[w] = j
    /\ wproc[w] = "api"

Processing(j) == jobs[j].exists /\ jobs[j].status = "processing"

HoldsLock(w) == pc[w] # "idle" /\ lock[wproc[w]] = w

(* C31: a job has status processing only while a worker of that job holds  *)
(* the lock of its PrinterService, so that among the jobs in the hands of  *)
(* one PrinterService at most one is processing.                           *)
C31_ProcessingOnlyUnderLock ==
  /\ \A j \in JobIds :
       Processing(j) => \E w \in Workers : wjob[w] = j /\ HoldsLock(w)
  /\ \A w1, w2 \in Workers :
       (/\ pc[w1] # "idle" /\ pc[w2] # "idle"
        /\ wproc[w1] = wproc[w2]
        /\ Processing(wjob[w1]) /\ Processing(wjob[w2])) =>
         wjob[w1] = wjob[w2]

(* worker w writes status processing in this step *)
MarksProcessing(w) ==
  pc[w] = "start" /\ pc'[w] \in {"printing", "printed"}

(* C32: whenever a worker writes status processing, the job's status is    *)
(* pending and no other worker is in flight for the same job.              *)
C32_ProcessingOnlyFromPending ==
  [][\A w \in Workers :
       MarksProcessing(w) =>
         /\ jobs[wjob[w]].status = "pending"
         /\ InFlight(wjob[w]) = {w}]_vars

(* worker w records success in this step *)
MarksSuccess(w) ==
  /\ pc[w] = "printed"
  /\ jobs[wjob[w]].exists
  /\ jobs'[wjob[w]].status = "success"

IsPayload(o) == o.op = "image" \/ (o.op = "text" /\ o.s # <<"\n">>)

(* the run of worker w opened a connection, sent the payload, then the     *)
(* feed-after lines and the cut if enabled, and closed the connection      *)
HasPrinted(w) ==
  /\ tried[w] # <<>>
  /\ \E i \in 1..Len(sent[w]) : IsPayload(sent[w][i])
  /\ EndsWith(sent[w],
              [i \in 1..yaml_config.feed_after |-> OpNl]
                \o (IF yaml_config.cut_paper THEN <<OpCut>> ELSE <<>>))
  /\ conn[w] = "none"

ReturnedUser(c, i) == lpc[c] = "validated" /\ lrec[c] = i

(* C34: a PIN row logs a user in at most once: no two validate_pin calls   *)
(* have both returned the user for the same auth_pins row.                 *)
C34_OneLoginPerPin ==
  \A i \in 1..Len(auth_pins) :
    \A c1, c2 \in Clients :
      (ReturnedUser(c1, i) /\ ReturnedUser(c2, i)) => c1 = c2

UnusedPins(u) ==
  {i \in 1..Len(auth_pins) : auth_pins[i].user_id = u /\ ~auth_pins[i].used}

(* row i is the row created last among the rows of its user *)
NewestPin(pins, i) ==
  \A j \in 1..Len(pins) : pins[j].user_id = pins[i].user_id => j <= i

(* the query of validate_pin matches a row for browser session c *)
PinValidates(c) == lpc[c] = "idle" /\ lpc'[c] = "found"

(* C35: each user has at most one unused PIN row, and the query of         *)
(* validate_pin only ever matches the row issued last to the user: a PIN   *)
(* issued earlier does not validate once a newer one has been issued.      *)
C35_OneUnusedPin ==
  /\ [](\A u \in UserIds : Cardinality(UnusedPins(u)) <= 1)
  /\ [][\A c \in Clients :
          PinValidates(c) => NewestPin(auth_pins, lrec'[c])]_vars

(* a user's second PIN has been matched after the first was invalidated *)
C35_Witness ==
  \E c \in Clients :
    /\ lpc[c] = "found"
    /\ \E i \in 1..Len(auth_pins) :
         /\ i < lrec[c]
         /\ auth_pins[i].user_id = auth_pins[lrec[c]].user_id
         /\ auth_pins[i].used
         /\ auth_pins[i].pin # auth_pins[lrec[c]].pin

SessionsOf(u) == {s \in user_sessions : s.user_id = u}

(* tokens issued before this step that validate for user u after it *)
OldTokensValid(u) ==
  {t \in 1..(next_token - 1) : validate_session(user_sessions', t) = u}

(* browser session c completes a login in this step *)
NewLogin(c) == lpc[c] = "validated" /\ lpc'[c] = "idle"

(* browser session c logs out in this step *)
LogsOut(c) ==
  /\ lpc[c] = "idle"
  /\ session_state[c].session_token # NoToken
  /\ session_state'[c].session_token = NoToken

====
